---- MODULE Spec2Model ----
(***************************************************************************)
(* tiny-parse: the parser combinators of include/tiny_parse/tiny_parse.hpp *)
(* and the primitive parsers of include/tiny_parse/built_in.hpp, as an     *)
(* abstract machine that evaluates one top-level parse(sv) call.           *)
(*                                                                         *)
(* A character is its ordinal (1 = 'a', 2 = 'b', 3 = 'c'); a string_view   *)
(* is the sequence of its characters.  A parser object is a record holding *)
(* its members (parser_, parser1_, times_, consumer_, ...).  Every call of *)
(* BaseParser::parse is a frame of the call stack; a frame holds the       *)
(* locals of parse_it (result, i, success) and the place it has reached.   *)
(* Three fields are bookkeeping for the properties: a frame's calls (the   *)
(* child calls it has made, with the input each got and the Result each    *)
(* returned), its path (which node of the top-level tree it evaluates) and *)
(* its mark (how many consumer calls had been made when it was called;     *)
(* ret also has how many had been made when the call returned).            *)
(* No action reads them, but for Call, which makes no more than MaxCalls   *)
(* calls from one frame: a loop that never ends stops there.               *)
(*                                                                         *)
(* A consumer is "none" (no std::function bound), "log" (a function that   *)
(* records its call and returns) or "throw" (a function that records its   *)
(* call and then throws, as Consumer<throws> of the tests does).  No class *)
(* of the library catches: an exception leaves every parse in progress,    *)
(* the top-level one included.                                             *)
(***************************************************************************)
EXTENDS Naturals, Sequences, FiniteSets

(***************************************************************************)
(* Bounds of the model.                                                    *)
(***************************************************************************)
\* the longest input string
MaxLen == 3
\* the largest count given to Times, GreaterThan and LessThan
MaxCount == 3

\* the characters inputs are made of: 'a', 'b'
Alphabet == {1, 2}

\* no repetition that ends makes this many attempts: with an inner parser
\* that consumes, at most MaxLen + 1; with a count, at most MaxCount
MaxCalls == MaxLen + MaxCount + 2

RECURSIVE Strings(_)
Strings(n) ==
  IF n = 0 THEN {<<>>}
  ELSE LET S == Strings(n - 1)
       IN S \cup {<<c>> \o s : c \in Alphabet, s \in {t \in S : Len(t) = n - 1}}

Inputs == Strings(MaxLen)

(***************************************************************************)
(* Result and the parser classes.                                          *)
(***************************************************************************)
Result(v, s) == [value |-> v, success |-> s]

CharP(c) == [kind |-> "CharP", C |-> c, consumer_ |-> "none"]
RangeP(lo, hi) == [kind |-> "RangeP", lower |-> lo, upper |-> hi, consumer_ |-> "none"]
AnyP == [kind |-> "AnyP", consumer_ |-> "none"]
Or(p1, p2) == [kind |-> "Or", parser1_ |-> p1, parser2_ |-> p2, consumer_ |-> "none"]
\* a constructor that initialises each member from the other argument
Then_Swapped(p1, p2) ==
  [kind |-> "Then", parser1_ |-> p2, parser2_ |-> p1, consumer_ |-> "none"]
Then(p1, p2) == [kind |-> "Then", parser1_ |-> p1, parser2_ |-> p2, consumer_ |-> "none"]
Optional(p) == [kind |-> "Optional", parser_ |-> p, consumer_ |-> "none"]
Many(p) == [kind |-> "Many", parser_ |-> p, consumer_ |-> "none"]
Times(n, p) == [kind |-> "Times", times_ |-> n, parser_ |-> p, consumer_ |-> "none"]
GreaterThan(n, p) == [kind |-> "GreaterThan", min_ |-> n, parser_ |-> p, consumer_ |-> "none"]
LessThan(n, p) == [kind |-> "LessThan", max_ |-> n, parser_ |-> p, consumer_ |-> "none"]

IsPrimitive(p) == p.kind \in {"CharP", "RangeP", "AnyP"}
IsBinary(p) == p.kind \in {"Or", "Then"}
IsUnary(p) == ~IsPrimitive(p) /\ ~IsBinary(p)

\* BaseParser::consumer on every node of a tree: each node gets a consumer
\* that records its call
RECURSIVE BindAll(_)
BindAll(p) ==
  IF IsPrimitive(p) THEN [p EXCEPT !.consumer_ = "log"]
  ELSE IF IsBinary(p)
  THEN [p EXCEPT !.consumer_ = "log",
                 !.parser1_ = BindAll(p.parser1_),
                 !.parser2_ = BindAll(p.parser2_)]
  ELSE [p EXCEPT !.consumer_ = "log", !.parser_ = BindAll(p.parser_)]

\* a consumer() that leaves a consumer already bound in place
Bound_KeepsFirst(p, k) ==
  IF p.consumer_ = "none" THEN [p EXCEPT !.consumer_ = k] ELSE p

\* p.consumer(k): BaseParser::consumer binds k to the node p
Bound(p, k) == [p EXCEPT !.consumer_ = k]

(***************************************************************************)
(* The parser trees the model evaluates.                                   *)
(***************************************************************************)
Counts == 0 .. MaxCount

Unary(S) ==
  {Optional(p) : p \in S} \cup {Many(p) : p \in S}
  \cup {Times(n, p) : n \in Counts, p \in S}
  \cup {GreaterThan(n, p) : n \in Counts, p \in S}
  \cup {LessThan(n, p) : n \in Counts, p \in S}

Binary(S, T) ==
  {Or(p, q) : p \in S, q \in T} \cup {Then(p, q) : p \in S, q \in T}

Prims == {CharP(1), RangeP(2, 3), AnyP}
Level1 == Unary(Prims) \cup Binary(Prims, Prims)
Core == Unary({CharP(1)}) \cup Binary({CharP(1)}, {RangeP(2, 3)})
Level2 ==
  Unary(Core) \cup Binary(Core, {CharP(1), RangeP(2, 3)})
  \cup Binary({CharP(1), RangeP(2, 3)}, Core)
Trees == Prims \cup Level1 \cup Level2

\* trees whose nodes have no consumer, a recording one or a throwing one
Consumers == {"none", "log", "throw"}
Leaves == {Bound(p, k) : p \in {CharP(1), RangeP(2, 3)}, k \in Consumers}
Pairs == {Bound(p, k) : p \in Binary(Leaves, Leaves), k \in {"none", "log"}}
Nested ==
  {Bound(p, "log") :
     p \in Binary({q \in Pairs : q.consumer_ = "log"},
                  {Bound(CharP(1), "log"), Bound(RangeP(2, 3), "log")})}
Loops == {Bound(p, "log") : p \in Unary({Bound(CharP(1), "throw")})}
WithConsumers == Leaves \cup Pairs \cup Nested \cup Loops

Parsers ==
  Trees \cup {BindAll(p) : p \in Core \cup Binary(Core, {CharP(1), RangeP(2, 3)})}
  \cup WithConsumers

(***************************************************************************)
(* The state.                                                              *)
(***************************************************************************)
VARIABLES
  parser,   \* the parser object parse is called on
  input,    \* the string_view given to the top-level parse
  stack,    \* the call stack: one frame per BaseParser::parse in progress
  log,      \* the consumer calls made so far: the node and the argument
  ret,      \* the BaseParser::parse call that returned last
  status,   \* "run" while the top-level parse is in progress, then "done"
            \* if it returned and "threw" if an exception left it
  unwound,  \* the calls an exception left: the stack when it was thrown
  pending,  \* a test case: the inputs it has still to give to parse
  measured, \* a test case: the values min_length() has returned to it
  matched,  \* a test case: how many characters each successful top-level
            \* parse it has checked had consumed
  held,     \* a program that builds parsers: the parser objects it holds
            \* and the consumer() calls it has made
  earlier,  \* the Results the top-level parses before this one returned
  events    \* the earlier engine (class Parser): the Parser::parse calls one
            \* top-level parse made, each with its consumer call if any

vars ==
  <<parser, input, stack, log, ret, status, unwound, pending, measured, matched,
    held, earlier, events>>

\* what a test case has seen
seen == <<pending, measured, matched>>

\* what the calling program keeps
program == <<held, earlier, events>>

NoResult == Result(<<>>, FALSE)

\* a program that holds no parser object but the one it parses with
NoObjects ==
  [original |-> AnyP, source |-> AnyP, composite |-> AnyP, shape |-> "none",
   binds |-> <<>>, target |-> "none"]
NoRet ==
  [p |-> AnyP, path |-> <<0>>, sv |-> <<>>, result |-> NoResult, calls |-> <<>>,
   mark |-> 0, end |-> 0]

Frame(p, path, sv, mark) ==
  [p |-> p, path |-> path, sv |-> sv, pc |-> "parse_it",
   result |-> NoResult, i |-> 0, success |-> FALSE, calls |-> <<>>, mark |-> mark]

top == stack[Len(stack)]
Running == status = "run" /\ Len(stack) > 0
At(kind, pc) == Running /\ top.p.kind = kind /\ top.pc = pc

\* the frame on top replaced by f
SetTop(f) == [stack EXCEPT ![Len(stack)] = f]

\* sv >> child: the frame on top goes on at `pc` once the call returns
Call(f, which, child, sv, pc) ==
  /\ Len(f.calls) < MaxCalls
  /\ stack' = Append(SetTop([f EXCEPT !.pc = pc]),
                     Frame(child, Append(f.path, which), sv, Len(log)))
  /\ UNCHANGED <<parser, input, log, ret, status, unwound, seen, program>>

\* parse_it returns r: BaseParser::parse goes on with its result
Return(f, r) ==
  /\ stack' = SetTop([f EXCEPT !.result = r, !.pc = "parse"])
  /\ UNCHANGED <<parser, input, log, ret, status, unwound, seen, program>>

Init ==
  /\ parser \in Parsers
  /\ input \in Inputs
  /\ stack = <<Frame(parser, <<>>, input, 0)>>
  /\ log = <<>>
  /\ ret = NoRet
  /\ status = "run"
  /\ unwound = <<>>
  /\ pending = <<>>
  /\ measured = {}
  /\ matched = {}
  /\ held = NoObjects
  /\ earlier = <<>>
  /\ events = <<>>

(***************************************************************************)
(* built_in.hpp: the primitive parsers.                                    *)
(***************************************************************************)
\* a CharP that keeps the first character instead of dropping it
CharP_result_KeepsFirst(sv, c) ==
  IF sv # <<>> /\ Head(sv) = c THEN Result(SubSeq(sv, 1, 1), TRUE) ELSE Result(sv, FALSE)

\* CharP<C>::parse_it(sv)
CharP_result(sv, c) ==
  IF sv # <<>> /\ Head(sv) = c THEN Result(Tail(sv), TRUE) ELSE Result(sv, FALSE)

\* a RangeP whose upper end is not part of the range
RangeP_result_Exclusive(sv, lower, upper) ==
  IF sv # <<>> /\ Head(sv) >= lower /\ Head(sv) < upper
  THEN Result(Tail(sv), TRUE)
  ELSE Result(sv, FALSE)

\* RangeP<lower, upper>::parse_it(sv)
RangeP_result(sv, lower, upper) ==
  IF sv # <<>> /\ Head(sv) >= lower /\ Head(sv) <= upper
  THEN Result(Tail(sv), TRUE)
  ELSE Result(sv, FALSE)

\* AnyP::parse_it(sv)
AnyP_result(sv) ==
  IF sv # <<>> THEN Result(Tail(sv), TRUE) ELSE Result(sv, FALSE)

CharP_parse_it ==
  /\ At("CharP", "parse_it")
  /\ Return(top, CharP_result(top.sv, top.p.C))

RangeP_parse_it ==
  /\ At("RangeP", "parse_it")
  /\ Return(top, RangeP_result(top.sv, top.p.lower, top.p.upper))

AnyP_parse_it ==
  /\ At("AnyP", "parse_it")
  /\ Return(top, AnyP_result(top.sv))

(***************************************************************************)
(* tiny_parse.hpp: the combinators.  Each parse_it is one action; each of  *)
(* its disjuncts is the code between two calls of a child parser.          *)
(***************************************************************************)
\* an Or that takes parser1_'s result only if it consumed something
Or_first_taken_IfConsumed(sv, result) == Len(result.value) < Len(sv)

\* an Or without its early return: parser2_ is run whatever parser1_ returned
Or_first_taken_Never(sv, result) == FALSE

\* Or: `result.success` of parser1_ decides whether parser2_ is tried
Or_first_taken(sv, result) == result.success

Or_parse_it ==
  \/ /\ At("Or", "parse_it")
     /\ Call(top, 1, top.p.parser1_, top.sv, "parser1")
  \/ /\ At("Or", "parser1")
     /\ IF Or_first_taken(top.sv, top.result)
        THEN Return(top, top.result)
        ELSE Call(top, 2, top.p.parser2_, top.sv, "parser2")
  \/ /\ At("Or", "parser2")
     /\ Return(top, top.result)

\* a Then that reports the failed child's result, without the rollback
Then_failed_NoRollback(sv, result) == Result(result.value, FALSE)

\* a Then that runs parser2_ on the original input
Then_second_input_Original(sv, result) == sv

\* Then: what is returned when parser1_ or parser2_ failed, and the input
\* parser2_ gets in `result >> parser2_`
Then_failed(sv, result) == Result(sv, FALSE)

Then_second_input(sv, result) == result.value

Then_parse_it ==
  \/ /\ At("Then", "parse_it")
     /\ Call(top, 1, top.p.parser1_, top.sv, "parser1")
  \/ /\ At("Then", "parser1")
     /\ IF ~top.result.success
        THEN Return(top, Then_failed(top.sv, top.result))
        ELSE Call(top, 2, top.p.parser2_, Then_second_input(top.sv, top.result), "parser2")
  \/ /\ At("Then", "parser2")
     /\ IF ~top.result.success
        THEN Return(top, Then_failed(top.sv, top.result))
        ELSE Return(top, top.result)

\* an Optional that hands on the inner result with its flag
Optional_result_Inner(result) == result

\* Optional: {parser_.parse(sv).value, true}
Optional_result(result) == Result(result.value, TRUE)

Optional_parse_it ==
  \/ /\ At("Optional", "parse_it")
     /\ Call(top, 1, top.p.parser_, top.sv, "parser")
  \/ /\ At("Optional", "parser")
     /\ Return(top, Optional_result(top.result))

\* Many: the condition of the while loop, and the value returned after it
Many_continue(result) == result.success

\* a Many that returns the last (failed) result as it is
Many_result_LastAttempt(result) == result

Many_result(result) == Result(result.value, TRUE)

Many_parse_it ==
  \/ /\ At("Many", "parse_it")
     /\ Call(top, 1, top.p.parser_, top.sv, "while")
  \/ /\ At("Many", "while")
     /\ IF Many_continue(top.result)
        THEN Call(top, 1, top.p.parser_, top.result.value, "while")
        ELSE Return(top, Many_result(top.result))

\* Times: the condition of the for loop, and the value returned after it
Times_continue(result, i, times) == result.success /\ i < times

Times_result(sv, result, i, times) ==
  IF i = times /\ result.success THEN result ELSE Result(sv, FALSE)

\* the for loop from its condition on, in frame f
Times_for(f) ==
  IF Times_continue(f.result, f.i, f.p.times_)
  THEN Call(f, 1, f.p.parser_, f.result.value, "body")
  ELSE Return(f, Times_result(f.sv, f.result, f.i, f.p.times_))

Times_parse_it ==
  \/ /\ At("Times", "parse_it")
     /\ Call([top EXCEPT !.i = 1], 1, top.p.parser_, top.sv, "first")
  \/ /\ At("Times", "first")
     /\ Times_for(top)
  \/ /\ At("Times", "body")
     /\ Times_for([top EXCEPT !.i = @ + 1])

\* a GreaterThan that accepts min_ repetitions
GreaterThan_result_AtLeast(sv, result, i, min) ==
  IF min <= i THEN Result(result.value, TRUE) ELSE Result(sv, FALSE)

\* GreaterThan: the value returned after the while loop
GreaterThan_result(sv, result, i, min) ==
  IF min < i THEN Result(result.value, TRUE) ELSE Result(sv, FALSE)

GreaterThan_parse_it ==
  \/ /\ At("GreaterThan", "parse_it")
     /\ Call([top EXCEPT !.i = 0], 1, top.p.parser_, top.sv, "while")
  \/ /\ At("GreaterThan", "while")
     /\ IF top.result.success
        THEN Call([top EXCEPT !.i = @ + 1], 1, top.p.parser_, top.result.value, "while")
        ELSE Return(top, GreaterThan_result(top.sv, top.result, top.i, top.p.min_))

\* LessThan: the condition of the for loop, the flag it accumulates and the
\* value returned after it
LessThan_continue(result, i, max) == result.success /\ i < max

\* a LessThan that keeps the outcome of the last attempt only
LessThan_accumulate_Last(success, result) == result.success

LessThan_accumulate(success, result) == success \/ result.success

LessThan_result(sv, result, success) == Result(result.value, success)

\* the for loop from its condition on, in frame f
LessThan_for(f) ==
  IF LessThan_continue(f.result, f.i, f.p.max_)
  THEN Call(f, 1, f.p.parser_, f.result.value, "body")
  ELSE Return(f, LessThan_result(f.sv, f.result, f.success))

LessThan_parse_it ==
  \/ /\ At("LessThan", "parse_it")
     /\ Call(top, 1, top.p.parser_, top.sv, "first")
  \/ /\ At("LessThan", "first")
     /\ LessThan_for([top EXCEPT !.success = top.result.success, !.i = 2])
  \/ /\ At("LessThan", "body")
     /\ LessThan_for([top EXCEPT
                        !.success = LessThan_accumulate(@, top.result),
                        !.i = @ + 1])

(***************************************************************************)
(* min_length(), the virtual function each class overrides.  Its type is   *)
(* size_t; the counts and lengths of the model stay far below 2^64, where  *)
(* size_t arithmetic is the arithmetic of the naturals.                    *)
(***************************************************************************)
\* the longer of the two branches
Or_min_length_Max(length1, length2) ==
  IF length1 >= length2 THEN length1 ELSE length2

\* Or::min_length: std::min of the two
Or_min_length(length1, length2) == IF length2 < length1 THEN length2 ELSE length1

\* Then::min_length
Then_min_length(length1, length2) == length1 + length2

\* Times::min_length
Times_min_length(length, times) == length * times

\* a GreaterThan that counts min_ repetitions, not min_ + 1
GreaterThan_min_length_NoPlusOne(min, length) == min * length

\* GreaterThan::min_length
GreaterThan_min_length(min, length) == (min + 1) * length

RECURSIVE min_length(_)
min_length(p) ==
  CASE IsPrimitive(p) -> 1
    [] p.kind = "Or" ->
         Or_min_length(min_length(p.parser1_), min_length(p.parser2_))
    [] p.kind = "Then" ->
         Then_min_length(min_length(p.parser1_), min_length(p.parser2_))
    [] p.kind = "Optional" -> 0
    [] p.kind = "Many" -> 0
    [] p.kind = "Times" -> Times_min_length(min_length(p.parser_), p.times_)
    [] p.kind = "GreaterThan" -> GreaterThan_min_length(p.min_, min_length(p.parser_))
    [] p.kind = "LessThan" -> 0

(***************************************************************************)
(* BaseParser::parse, after parse_it: the consumer, then the return to the *)
(* caller, whose local `result` is assigned.                               *)
(***************************************************************************)
\* the consumer is given what is left of the input, not what was consumed
Consumed_Remainder(sv, result) == result.value

\* sv.substr(0, sv.size() - result.value.size())
Consumed(sv, result) == SubSeq(sv, 1, Len(sv) - Len(result.value))

\* the consumer is called only when the match consumed something
ConsumerFires_IfConsumed(f) ==
  /\ f.p.consumer_ # "none"
  /\ f.result.success
  /\ Len(f.result.value) < Len(f.sv)

\* the consumer is called whether the match succeeded or not
ConsumerFires_OnFailure(f) == f.p.consumer_ # "none"

ConsumerFires(f) == f.p.consumer_ # "none" /\ f.result.success

\* BaseParser::parse catches what the consumer throws and goes on
Throws_Caught(f) == FALSE

\* the consumer that is called throws
Throws(f) == ConsumerFires(f) /\ f.p.consumer_ = "throw"

\* the consumer, if it is called, returns: parse returns to its caller
BaseParser_parse ==
  /\ Running
  /\ top.pc = "parse"
  /\ ~Throws(top)
  /\ log' = IF ConsumerFires(top)
            THEN Append(log, [path |-> top.path, arg |-> Consumed(top.sv, top.result)])
            ELSE log
  /\ ret' = [p |-> top.p, path |-> top.path, sv |-> top.sv,
             result |-> top.result, calls |-> top.calls, mark |-> top.mark,
             end |-> Len(log')]
  /\ IF Len(stack) = 1
     THEN /\ stack' = <<>>
          /\ status' = "done"
     ELSE /\ LET caller == stack[Len(stack) - 1]
                 call == [which |-> top.path[Len(top.path)], sv |-> top.sv,
                          result |-> top.result]
             IN stack' = [SubSeq(stack, 1, Len(stack) - 1) EXCEPT
                            ![Len(stack) - 1] =
                              [caller EXCEPT !.result = top.result,
                                             !.calls = Append(caller.calls, call)]]
          /\ status' = status
  /\ UNCHANGED <<parser, input, unwound, seen, program>>

\* the consumer is called and throws: the exception leaves parse, and every
\* parse_it and parse below it, none of which catches
BaseParser_parse_throw ==
  /\ Running
  /\ top.pc = "parse"
  /\ Throws(top)
  /\ log' = Append(log, [path |-> top.path, arg |-> Consumed(top.sv, top.result)])
  /\ unwound' = stack
  /\ stack' = <<>>
  /\ status' = "threw"
  /\ UNCHANGED <<parser, input, ret, seen, program>>

Next ==
  \/ CharP_parse_it
  \/ RangeP_parse_it
  \/ AnyP_parse_it
  \/ Or_parse_it
  \/ Then_parse_it
  \/ Optional_parse_it
  \/ Many_parse_it
  \/ Times_parse_it
  \/ GreaterThan_parse_it
  \/ LessThan_parse_it
  \/ BaseParser_parse
  \/ BaseParser_parse_throw

Spec == Init /\ [][Next]_vars

(***************************************************************************)
(* The primitive parsers alone, on inputs over four characters: with       *)
(* RangeP<'b','c'> there is a character below the range ('a'), one at each *)
(* end of it and one above it ('d').                                       *)
(***************************************************************************)
\* the longest input given to a primitive parser
MaxPrimLen == 2

PrimAlphabet == 1 .. 4

RECURSIVE StringsOver(_, _)
StringsOver(A, n) ==
  IF n = 0 THEN {<<>>}
  ELSE LET S == StringsOver(A, n - 1)
       IN S \cup {<<c>> \o s : c \in A, s \in {t \in S : Len(t) = n - 1}}

PrimInputs == StringsOver(PrimAlphabet, MaxPrimLen)

\* CharP<C>, RangeP<lower, upper> for every pair of template arguments, the
\* pairs with upper < lower included, and AnyP
PrimParsers ==
  {CharP(c) : c \in PrimAlphabet}
  \cup {RangeP(lo, hi) : lo \in PrimAlphabet, hi \in PrimAlphabet}
  \cup {AnyP}

InitPrimitives ==
  /\ parser \in PrimParsers
  /\ input \in PrimInputs
  /\ stack = <<Frame(parser, <<>>, input, 0)>>
  /\ log = <<>>
  /\ ret = NoRet
  /\ status = "run"
  /\ unwound = <<>>
  /\ pending = <<>>
  /\ measured = {}
  /\ matched = {}
  /\ held = NoObjects
  /\ earlier = <<>>
  /\ events = <<>>

NextPrimitives ==
  \/ CharP_parse_it
  \/ RangeP_parse_it
  \/ AnyP_parse_it
  \/ BaseParser_parse

SpecPrimitives == InitPrimitives /\ [][NextPrimitives]_vars

(***************************************************************************)
(* A test case, as the test suite writes them: it asks one parser for its  *)
(* min_length() and then gives it one input after the other, checking the  *)
(* Result of each parse before the next.                                   *)
(***************************************************************************)
\* the elements of the finite set S, one after the other
RECURSIVE SeqOf(_)
SeqOf(S) ==
  IF S = {} THEN <<>>
  ELSE LET x == CHOOSE y \in S : TRUE
       IN <<x>> \o SeqOf(S \ {x})

InitTestCase ==
  /\ parser \in Parsers
  /\ input = <<>>
  /\ stack = <<>>
  /\ log = <<>>
  /\ ret = NoRet
  /\ status = "start"
  /\ unwound = <<>>
  /\ pending = SeqOf(Inputs)
  /\ measured = {}
  /\ matched = {}
  /\ held = NoObjects
  /\ earlier = <<>>
  /\ events = <<>>

\* CHECK(parser.min_length() == ...)
TestCase_min_length ==
  /\ status = "start"
  /\ measured' = measured \cup {min_length(parser)}
  /\ status' = "ready"
  /\ UNCHANGED <<parser, input, stack, log, ret, unwound, pending, matched, program>>

\* parser.parse(...) on the next input
TestCase_parse ==
  /\ status = "ready"
  /\ pending # <<>>
  /\ input' = Head(pending)
  /\ pending' = Tail(pending)
  /\ stack' = <<Frame(parser, <<>>, input', Len(log))>>
  /\ status' = "run"
  /\ UNCHANGED <<parser, log, ret, unwound, measured, matched, program>>

\* CHECK(... == Result{...}) on what parse returned
TestCase_check ==
  /\ status = "done"
  /\ matched' = IF ret.result.success
                THEN matched \cup {Len(input) - Len(ret.result.value)}
                ELSE matched
  /\ status' = "ready"
  /\ UNCHANGED <<parser, input, stack, log, ret, unwound, pending, measured, program>>

NextTestCase ==
  \/ Next
  \/ TestCase_min_length
  \/ TestCase_parse
  \/ TestCase_check

SpecTestCase == InitTestCase /\ [][NextTestCase]_vars

(***************************************************************************)
(* The example program: (CharP<'c'> | +CharP<'t'>) & CharP<'e'> with a     *)
(* consumer on the whole parser, run on "ttest str".  Characters are the   *)
(* ordinals of the letters ('c' = 3, 'e' = 5, 'r' = 18, 's' = 19,          *)
(* 't' = 20) and 0 for the space.  The model also runs the parser on every *)
(* substring of that input and of "ce str", where the first alternative    *)
(* matches.                                                                *)
(***************************************************************************)
ExampleParser ==
  Bound(Then(Or(CharP(3), GreaterThan(0, CharP(20))), CharP(5)), "log")

\* "ttest str"
ExampleInput == <<20, 20, 5, 19, 20, 0, 19, 20, 18>>

Substrings(s) ==
  {SubSeq(s, j, k) : j \in 1 .. (Len(s) + 1), k \in 0 .. Len(s)}

ExampleInputs == Substrings(ExampleInput) \cup Substrings(<<3, 5, 0, 19, 20, 18>>)

InitExample ==
  /\ parser = ExampleParser
  /\ input \in ExampleInputs
  /\ stack = <<Frame(parser, <<>>, input, 0)>>
  /\ log = <<>>
  /\ ret = NoRet
  /\ status = "run"
  /\ unwound = <<>>
  /\ pending = <<>>
  /\ measured = {}
  /\ matched = {}
  /\ held = NoObjects
  /\ earlier = <<>>
  /\ events = <<>>

NextExample ==
  \/ CharP_parse_it
  \/ Or_parse_it
  \/ Then_parse_it
  \/ GreaterThan_parse_it
  \/ BaseParser_parse

SpecExample == InitExample /\ [][NextExample]_vars

(***************************************************************************)
(* A program that builds parsers, as the Consumer test case does: it holds *)
(* a primitive parser (`original`), binds consumers to it, builds another  *)
(* parser from it (`composite`: a plain copy, or a Then, Or or Optional    *)
(* around it) and calls parse on one of the two.  The classes keep their   *)
(* children as members of the children's types (T parser1_; S parser2_;),  *)
(* which their constructors copy-construct from the arguments.             *)
(***************************************************************************)
\* the most consumer() calls a program makes
MaxBinds == 2

\* a copy that leaves the consumer behind
CopyOf_WithoutConsumer(p) == [p EXCEPT !.consumer_ = "none"]

\* the implicit copy constructor of a parser class: every member,
\* consumer_ included
CopyOf(p) == p

\* the second parser the program composes with
Companion == Bound(RangeP(2, 3), "log")

Shapes == {"copy", "first", "second", "either", "twice", "optional"}

\* auto parser = p;  p & q;  q & p;  p | q;  p & p;  ~p
Compose(shape, p) ==
  CASE shape = "copy" -> CopyOf(p)
    [] shape = "first" -> Then(CopyOf(p), CopyOf(Companion))
    [] shape = "second" -> Then(CopyOf(Companion), CopyOf(p))
    [] shape = "either" -> Or(CopyOf(p), CopyOf(Companion))
    [] shape = "twice" -> Then(CopyOf(p), CopyOf(p))
    [] shape = "optional" -> Optional(CopyOf(p))

InitProgram ==
  /\ held = [NoObjects EXCEPT !.original = CharP(1)]
  /\ parser = held.original
  /\ input = <<>>
  /\ stack = <<>>
  /\ log = <<>>
  /\ ret = NoRet
  /\ status = "start"
  /\ unwound = <<>>
  /\ pending = <<>>
  /\ measured = {}
  /\ matched = {}
  /\ earlier = <<>>
  /\ events = <<>>

\* original.consumer(k)
Program_consumer ==
  /\ status = "start"
  /\ Len(held.binds) < MaxBinds
  /\ \E k \in Consumers :
       held' = [held EXCEPT !.original = Bound(@, k), !.binds = Append(@, k)]
  /\ UNCHANGED <<parser, input, stack, log, ret, status, unwound, seen, earlier, events>>

\* the composite is constructed from the original as it is now
Program_compose ==
  /\ status = "start"
  /\ held.shape = "none"
  /\ \E shape \in Shapes :
       held' = [held EXCEPT !.composite = Compose(shape, held.original),
                            !.source = held.original,
                            !.shape = shape]
  /\ UNCHANGED <<parser, input, stack, log, ret, status, unwound, seen, earlier, events>>

\* original.parse(s) or composite.parse(s)
Program_parse ==
  /\ status = "start"
  /\ \E s \in Inputs :
       \E target \in {"original"} \cup
                     (IF held.shape = "none" THEN {} ELSE {"composite"}) :
         /\ parser' = IF target = "original" THEN held.original ELSE held.composite
         /\ input' = s
         /\ stack' = <<Frame(parser', <<>>, s, 0)>>
         /\ held' = [held EXCEPT !.target = target]
  /\ status' = "run"
  /\ UNCHANGED <<log, ret, unwound, seen, earlier, events>>

NextProgram ==
  \/ Program_consumer
  \/ Program_compose
  \/ Program_parse
  \/ CharP_parse_it
  \/ RangeP_parse_it
  \/ Or_parse_it
  \/ Then_parse_it
  \/ Optional_parse_it
  \/ BaseParser_parse
  \/ BaseParser_parse_throw

SpecProgram == InitProgram /\ [][NextProgram]_vars

(***************************************************************************)
(* The earlier engine, class Parser: parse returns the unparsed rest of    *)
(* the input as a string_view, there is no success flag, and the consumer  *)
(* is called when the consumed length reaches min_length().  One top-level *)
(* parse is one step: Parser_parse computes the rest it returns together   *)
(* with the Parser::parse calls it made, innermost first, each with the    *)
(* arguments its consumer was called with (none or one).                   *)
(***************************************************************************)
More(p) == [kind |-> "More", parser_ |-> p, consumer_ |-> "none"]

\* min_length() of the classes of the earlier engine
RECURSIVE Parser_min_length(_)
Parser_min_length(p) ==
  CASE p.kind = "CharP" -> 1
    [] p.kind = "Or" ->
         Or_min_length(Parser_min_length(p.parser1_), Parser_min_length(p.parser2_))
    [] p.kind = "Then" ->
         Then_min_length(Parser_min_length(p.parser1_), Parser_min_length(p.parser2_))
    [] p.kind = "More" -> 0
    [] p.kind = "Optional" -> 0

\* a condition that also asks for something to have been consumed
Parser_fires_IfConsumed(p, sv, result) ==
  /\ p.consumer_ # "none"
  /\ Len(result) < Len(sv)
  /\ Parser_min_length(p) <= Len(sv) - Len(result)

\* Parser::parse: the condition under which the consumer is called
Parser_fires(p, sv, result) ==
  /\ p.consumer_ # "none"
  /\ Parser_min_length(p) <= Len(sv) - Len(result)

\* CharP::parse_it of the earlier engine
CharP_rest(sv, c) == IF sv # <<>> /\ Head(sv) = c THEN Tail(sv) ELSE sv

\* More::parse_it: the condition of its while loop
More_continue(result, old_len) == result # <<>> /\ Len(result) < old_len

RECURSIVE Parser_parse(_, _)
RECURSIVE Parser_parse_it(_, _)
RECURSIVE More_while(_, _, _)

\* More::parse_it: the while loop, from the state r of the calls so far
More_while(p, r, old_len) ==
  IF More_continue(r.result, old_len)
  THEN LET next == Parser_parse(p, r.result)
       IN More_while(p, [result |-> next.result, calls |-> r.calls \o next.calls],
                     Len(r.result))
  ELSE r

\* parse_it of the classes of the earlier engine
Parser_parse_it(p, sv) ==
  CASE p.kind = "CharP" -> [result |-> CharP_rest(sv, p.C), calls |-> <<>>]
    [] p.kind = "Or" ->
         LET tmp == Parser_parse(p.parser1_, sv)
         IN IF Len(tmp.result) = Len(sv)
            THEN LET second == Parser_parse(p.parser2_, sv)
                 IN [result |-> second.result, calls |-> tmp.calls \o second.calls]
            ELSE tmp
    [] p.kind = "Then" ->
         LET first == Parser_parse(p.parser1_, sv)
             second == Parser_parse(p.parser2_, first.result)
         IN [result |-> second.result, calls |-> first.calls \o second.calls]
    [] p.kind = "More" -> More_while(p.parser_, Parser_parse(p.parser_, sv), Len(sv))
    [] p.kind = "Optional" -> Parser_parse(p.parser_, sv)

\* Parser::parse: parse_it, then the consumer on what was consumed
Parser_parse(p, sv) ==
  LET r == Parser_parse_it(p, sv)
      args == IF Parser_fires(p, sv, r.result)
              THEN <<SubSeq(sv, 1, Len(sv) - Len(r.result))>>
              ELSE <<>>
  IN [result |-> r.result,
      calls |-> Append(r.calls, [p |-> p, sv |-> sv, result |-> r.result,
                                 args |-> args])]

\* the parsers of the earlier engine that are given to parse: every node has
\* a consumer, or none has
EarlierChars == {CharP(1), CharP(2)}
EarlierLevel1 ==
  {Optional(p) : p \in EarlierChars} \cup {More(p) : p \in EarlierChars}
  \cup Binary(EarlierChars, EarlierChars)
EarlierLevel2 ==
  {Optional(p) : p \in EarlierLevel1} \cup {More(p) : p \in EarlierLevel1}
  \cup Binary(EarlierLevel1, EarlierChars) \cup Binary(EarlierChars, EarlierLevel1)
EarlierTrees == EarlierChars \cup EarlierLevel1 \cup EarlierLevel2
EarlierParsers == EarlierTrees \cup {BindAll(p) : p \in EarlierTrees}

InitEarlier ==
  /\ parser \in EarlierParsers
  /\ input \in Inputs
  /\ stack = <<>>
  /\ log = <<>>
  /\ ret = NoRet
  /\ status = "start"
  /\ unwound = <<>>
  /\ pending = <<>>
  /\ measured = {}
  /\ matched = {}
  /\ held = NoObjects
  /\ earlier = <<>>
  /\ events = <<>>

\* the top-level call parser.parse(input)
Earlier_parse ==
  /\ status = "start"
  /\ events' = Parser_parse(parser, input).calls
  /\ status' = "done"
  /\ UNCHANGED <<parser, input, stack, log, ret, unwound, seen, held, earlier>>

NextEarlier == Earlier_parse

SpecEarlier == InitEarlier /\ [][NextEarlier]_vars

(***************************************************************************)
(* A program that holds a repetition parser (`original`) and the parser    *)
(* that spells the repetition out with Then, Times and Many (`composite`), *)
(* and calls parse on the one and then on the other with the same input.   *)
(***************************************************************************)
\* the inner parsers of the repetitions: each consumes when it succeeds
Repeated ==
  Prims \cup {Then(CharP(1), RangeP(2, 3)), Or(CharP(1), RangeP(2, 3)),
              Then(CharP(1), CharP(1))}

\* more than n times A, spelt out: n + 1 times A, then any number of A
Expansion(n, A) == Then(Times(n + 1, A), Many(A))

\* the pairs of a parser and the parser it is compared with
Expansions ==
  {[original |-> GreaterThan(n, A), composite |-> Expansion(n, A),
    shape |-> "GreaterThan"] : n \in Counts, A \in Repeated}
  \cup {[original |-> GreaterThan(0, A), composite |-> Then(A, Many(A)),
         shape |-> "operator+"] : A \in Repeated}
  \cup {[original |-> Times(1, A), composite |-> A, shape |-> "Times"] :
          A \in Repeated}

InitExpansion ==
  /\ \E e \in Expansions :
       held = [NoObjects EXCEPT !.original = e.original, !.source = e.original,
                                !.composite = e.composite, !.shape = e.shape]
  /\ parser = held.original
  /\ input \in Inputs
  /\ stack = <<>>
  /\ log = <<>>
  /\ ret = NoRet
  /\ status = "start"
  /\ unwound = <<>>
  /\ pending = <<>>
  /\ measured = {}
  /\ matched = {}
  /\ earlier = <<>>
  /\ events = <<>>

\* original.parse(input)
Expansion_first ==
  /\ status = "start"
  /\ parser' = held.original
  /\ stack' = <<Frame(held.original, <<>>, input, Len(log))>>
  /\ held' = [held EXCEPT !.target = "original"]
  /\ status' = "run"
  /\ UNCHANGED <<input, log, ret, unwound, seen, earlier, events>>

\* composite.parse(input), once original.parse(input) has returned; the
\* program keeps what that call returned
Expansion_second ==
  /\ status = "done"
  /\ held.target = "original"
  /\ earlier' = Append(earlier, ret.result)
  /\ parser' = held.composite
  /\ stack' = <<Frame(held.composite, <<>>, input, Len(log))>>
  /\ held' = [held EXCEPT !.target = "composite"]
  /\ status' = "run"
  /\ UNCHANGED <<input, log, ret, unwound, seen, events>>

NextExpansion ==
  \/ Expansion_first
  \/ Expansion_second
  \/ CharP_parse_it
  \/ RangeP_parse_it
  \/ AnyP_parse_it
  \/ Or_parse_it
  \/ Then_parse_it
  \/ Many_parse_it
  \/ Times_parse_it
  \/ GreaterThan_parse_it
  \/ BaseParser_parse

SpecExpansion == InitExpansion /\ [][NextExpansion]_vars

(***************************************************************************)
(* Properties.  ret is the call of BaseParser::parse that returned last:   *)
(* a property of ret holds of every call of every node of the tree.        *)
(***************************************************************************)
Returned == ret.path # <<0>>

\* r is a suffix of s
IsSuffix(r, s) == Len(r) <= Len(s) /\ r = SubSeq(s, Len(s) - Len(r) + 1, Len(s))

\* p is a prefix of q
IsPrefix(p, q) == Len(p) <= Len(q) /\ p = SubSeq(q, 1, Len(p))

\* the consumer calls made during the call that returned last
LogOfRet == SubSeq(log, ret.mark + 1, ret.end)

\* C1: whenever parse(s) reports failure, the value it returns is s itself:
\* no node of any tree reports a partial consumption on failure.
C1_FailureLeavesInput ==
  (Returned /\ ~ret.result.success) => ret.result.value = ret.sv

\* a Then whose first child consumed and whose second child failed
C1_Witness ==
  /\ Returned
  /\ ret.p.kind = "Then"
  /\ ~ret.result.success
  /\ Len(ret.calls) = 2
  /\ ret.calls[1].result.success
  /\ Len(ret.calls[1].result.value) < Len(ret.sv)
  /\ ret.result.value = ret.sv

\* C2: the value parse(s) returns is a suffix of s, on success and on failure.
C2_RemainderIsSuffix ==
  Returned => IsSuffix(ret.result.value, ret.sv)

\* a successful match that consumed part of its input and left the rest
C2_Witness ==
  /\ Returned
  /\ ret.result.success
  /\ Len(ret.result.value) > 0
  /\ Len(ret.result.value) < Len(ret.sv)
  /\ IsSuffix(ret.result.value, ret.sv)

\* C3: Then(A,B).parse(s) calls A on s and, if A succeeded, B on A's
\* remainder; it succeeds iff both did, then returning B's result, and it
\* returns {s, false} otherwise.
C3_SequenceIdentity ==
  (Returned /\ ret.p.kind = "Then") =>
    LET c == ret.calls
        both == Len(c) = 2 /\ c[1].result.success /\ c[2].result.success
    IN /\ Len(c) \in {1, 2}
       /\ c[1].which = 1 /\ c[1].sv = ret.sv
       /\ c[1].result.success <=> Len(c) = 2
       /\ Len(c) = 2 => c[2].which = 2 /\ c[2].sv = c[1].result.value
       /\ ret.result.success <=> both
       /\ both => ret.result = c[2].result
       /\ ~both => ret.result = Result(ret.sv, FALSE)

\* a Then that succeeded with both children consuming
C3_Witness ==
  /\ Returned
  /\ ret.p.kind = "Then"
  /\ ret.result.success
  /\ Len(ret.calls) = 2
  /\ Len(ret.calls[1].result.value) < Len(ret.sv)
  /\ Len(ret.calls[2].result.value) < Len(ret.calls[1].result.value)

\* the consumer calls of the nodes under child `which` of the node of ret,
\* made during the call that returned last
LogOfChild(which) ==
  {k \in DOMAIN LogOfRet : IsPrefix(Append(ret.path, which), LogOfRet[k].path)}

\* C4: if A.parse(s) succeeds, also consuming nothing, Or(A,B).parse(s) is
\* A's result and B is not called, so no consumer inside B is called; if A
\* fails, it is the result of B.parse(s).
C4_OrLeftBias ==
  (Returned /\ ret.p.kind = "Or") =>
    LET c == ret.calls
    IN /\ c[1].which = 1 /\ c[1].sv = ret.sv
       /\ c[1].result.success =>
            /\ Len(c) = 1
            /\ ret.result = c[1].result
            /\ LogOfChild(2) = {}
       /\ ~c[1].result.success =>
            /\ Len(c) = 2
            /\ c[2].which = 2 /\ c[2].sv = ret.sv
            /\ ret.result = c[2].result

\* an Or whose first child succeeded consuming nothing, on an input its
\* second child, which has a consumer, matches
C4_Witness ==
  /\ Returned
  /\ ret.p.kind = "Or"
  /\ ret.calls[1].result.success
  /\ ret.calls[1].result.value = ret.sv
  /\ ret.p.parser2_ = BindAll(RangeP(2, 3))
  /\ ret.sv # <<>> /\ Head(ret.sv) = 2
  /\ ret.result = Result(ret.sv, TRUE)
  /\ LogOfChild(1) # {}

\* the calls c of one frame ran one after the other: the first on sv, each
\* next one on the remainder the one before returned
Chain(c, sv) ==
  /\ c[1].sv = sv
  /\ \A k \in 1 .. (Len(c) - 1) : c[k + 1].sv = c[k].result.value

\* how many of the calls c succeeded
Successes(c) == Cardinality({k \in DOMAIN c : c[k].result.success})

\* every call of c but the last succeeded and the last failed: c counts the
\* consecutive matches from the first input on
RunThenFailure(c) ==
  /\ \A k \in 1 .. (Len(c) - 1) : c[k].result.success
  /\ ~c[Len(c)].result.success

\* every successful match of p consumes at least one character
RECURSIVE Consuming(_)
Consuming(p) ==
  CASE IsPrimitive(p) -> TRUE
    [] p.kind = "Or" -> Consuming(p.parser1_) /\ Consuming(p.parser2_)
    [] p.kind = "Then" -> Consuming(p.parser1_) \/ Consuming(p.parser2_)
    [] p.kind \in {"Optional", "Many"} -> FALSE
    [] OTHER -> Consuming(p.parser_)

\* Consuming(p) says what it is meant to say
ConsumingIsSound ==
  (Returned /\ Consuming(ret.p) /\ ret.result.success) =>
    Len(ret.result.value) < Len(ret.sv)

\* C5: the loop of Many stops at the first inner failure or as soon as an
\* inner success leaves the remainder no shorter: while a further attempt
\* of the inner parser is in progress, every attempt before it succeeded
\* and returned a shorter remainder than it was given.
C5_ManyStopsWithoutProgress ==
  \A j \in 1 .. (Len(stack) - 1) :
    stack[j].p.kind = "Many" =>
      \A k \in DOMAIN stack[j].calls :
        LET call == stack[j].calls[k]
        IN call.result.success /\ Len(call.result.value) < Len(call.sv)

\* the loop of Many(Optional(X)) on the empty input: it has made MaxCalls
\* attempts, none of which consumed, and the call has not returned
C5_LoopGoesOn ==
  /\ status = "run"
  /\ Len(stack) = 1
  /\ top.p.kind = "Many" /\ top.p.parser_.kind = "Optional"
  /\ top.sv = <<>>
  /\ Len(top.calls) = MaxCalls
  /\ \A k \in DOMAIN top.calls : top.calls[k].result = Result(<<>>, TRUE)

\* C6: Many(A).parse(s), A consuming on success, returns success = true and
\* s without its maximal run of leading A-matches: the attempts ran one
\* after the other, all but the last matched, the last failed on the value
\* that is returned (s itself with zero matches); and such a loop makes at
\* most |s| + 1 attempts.
C6_ManyResult ==
  /\ (Returned /\ ret.p.kind = "Many") =>
       LET c == ret.calls
       IN /\ ret.result.success
          /\ Chain(c, ret.sv)
          /\ RunThenFailure(c)
          /\ ret.result.value = c[Len(c)].sv
          /\ Len(c) = 1 => ret.result.value = ret.sv
  /\ \A j \in DOMAIN stack :
       (stack[j].p.kind = "Many" /\ Consuming(stack[j].p.parser_)) =>
         Len(stack[j].calls) <= Len(stack[j].sv) + 1

\* Many(CharP 'a') on "aab": {"b", true} after two matches
C6_Witness ==
  /\ Returned
  /\ ret.p = Many(CharP(1))
  /\ ret.sv = <<1, 1, 2>>
  /\ Len(ret.calls) = 3
  /\ ret.result = Result(<<2>>, TRUE)

\* C7: Optional(A).parse(s) always succeeds; its value is A's remainder
\* when A.parse(s) succeeded and s when A failed.
C7_OptionalTotal ==
  (Returned /\ ret.p.kind = "Optional") =>
    LET c == ret.calls
    IN /\ Len(c) = 1 /\ c[1].sv = ret.sv
       /\ ret.result.success
       /\ c[1].result.success => ret.result.value = c[1].result.value
       /\ ~c[1].result.success => ret.result.value = ret.sv

\* an Optional whose inner parser failed on a non-empty input
C7_Witness ==
  /\ Returned
  /\ ret.p.kind = "Optional"
  /\ ret.sv # <<>>
  /\ ~ret.calls[1].result.success
  /\ ret.result = Result(ret.sv, TRUE)

\* the remainder after the first n of the calls c, which began on sv
AfterMatches(c, sv, n) == IF n = 0 THEN sv ELSE c[n].result.value

\* C8: Times(n, A).parse(s), for every n >= 0, succeeds iff A matches n
\* times in a row from s on, returning what is left after exactly those n
\* matches; otherwise it returns {s, false}.
C8_TimesExact ==
  (Returned /\ ret.p.kind = "Times") =>
    LET c == ret.calls
        n == ret.p.times_
    IN IF Successes(c) >= n
       THEN ret.result = Result(AfterMatches(c, ret.sv, n), TRUE)
       ELSE ret.result = Result(ret.sv, FALSE)

\* C8 for n >= 1, where the code does what C8 says
C8_TimesExactPositive ==
  (Returned /\ ret.p.kind = "Times" /\ ret.p.times_ >= 1) =>
    LET c == ret.calls
        n == ret.p.times_
    IN /\ Chain(c, ret.sv)
       /\ Len(c) <= n
       /\ \A k \in 1 .. (Len(c) - 1) : c[k].result.success
       /\ IF Successes(c) >= n
          THEN ret.result = Result(AfterMatches(c, ret.sv, n), TRUE)
          ELSE ret.result = Result(ret.sv, FALSE)

\* Times(0, A): the call fails, after one attempt of A
C8_ZeroTimesFails ==
  (Returned /\ ret.p.kind = "Times" /\ ret.p.times_ = 0) =>
    /\ Len(ret.calls) = 1
    /\ ret.result = Result(ret.sv, FALSE)

\* C9: GreaterThan(n, A).parse(s), A consuming on success: with k the number
\* of consecutive leading A-matches in s, it succeeds iff k > n, returning
\* the remainder after all k matches, and returns {s, false} otherwise; and
\* such a loop makes at most |s| + 1 attempts.
C9_GreaterThanResult ==
  /\ (Returned /\ ret.p.kind = "GreaterThan") =>
       LET c == ret.calls
           k == Len(c) - 1
       IN /\ Chain(c, ret.sv)
          /\ RunThenFailure(c)
          /\ ret.result.success <=> k > ret.p.min_
          /\ ret.result.success => ret.result.value = AfterMatches(c, ret.sv, k)
          /\ ~ret.result.success => ret.result.value = ret.sv
  /\ \A j \in DOMAIN stack :
       (stack[j].p.kind = "GreaterThan" /\ Consuming(stack[j].p.parser_)) =>
         Len(stack[j].calls) <= Len(stack[j].sv) + 1

\* GreaterThan(2, CharP 'a') on "aaa": {"", true} after three matches, and
\* GreaterThan(0, A) after exactly one match
C9_Witness ==
  /\ Returned
  /\ \/ /\ ret.p = GreaterThan(2, CharP(1))
        /\ ret.sv = <<1, 1, 1>>
        /\ ret.result = Result(<<>>, TRUE)
     \/ /\ ret.p.kind = "GreaterThan" /\ ret.p.min_ = 0
        /\ Len(ret.calls) = 2
        /\ ret.result.success

\* GreaterThan(2, CharP 'a') on "aa": {"aa", false}
C9_WitnessTooFew ==
  /\ Returned
  /\ ret.p = GreaterThan(2, CharP(1))
  /\ ret.sv = <<1, 1>>
  /\ ret.result = Result(<<1, 1>>, FALSE)

\* C10: LessThan(n, A).parse(s) succeeds iff the first attempt of A on s
\* succeeds; if that fails the result is {s, false}; on success the value
\* is the remainder of the last attempt that succeeded, which a later failed
\* attempt neither moves nor turns into a failure.
C10_LessThanResult ==
  (Returned /\ ret.p.kind = "LessThan") =>
    LET c == ret.calls
        k == Successes(c)
    IN /\ Chain(c, ret.sv)
       /\ \A j \in 1 .. (Len(c) - 1) : c[j].result.success
       /\ ret.result.success <=> c[1].result.success
       /\ ~c[1].result.success => Len(c) = 1 /\ ret.result = Result(ret.sv, FALSE)
       /\ ret.result.success => ret.result.value = c[k].result.value

\* a LessThan that succeeded although its last attempt failed
C10_Witness ==
  /\ Returned
  /\ ret.p.kind = "LessThan"
  /\ Len(ret.calls) >= 2
  /\ ~ret.calls[Len(ret.calls)].result.success
  /\ ret.result.success
  /\ ret.result.value = ret.calls[Len(ret.calls) - 1].result.value

\* C11: LessThan(n, A), for every n including 0 and 1, makes at most n - 1
\* attempts of A in one parse, and a successful result consumed between 1
\* and n - 1 repetitions of A, never n or more.
C11_LessThanUpperBound ==
  (Returned /\ ret.p.kind = "LessThan") =>
    LET c == ret.calls
    IN /\ Len(c) + 1 <= ret.p.max_
       /\ ret.result.success =>
            Successes(c) >= 1 /\ Successes(c) + 1 <= ret.p.max_

\* the same bound for n >= 2, where the loop condition i < max_ decides
C11_UpperBoundFromTwo ==
  (Returned /\ ret.p.kind = "LessThan" /\ ret.p.max_ >= 2) =>
    LET c == ret.calls
    IN /\ Len(c) + 1 <= ret.p.max_
       /\ ret.result.success =>
            Successes(c) >= 1 /\ Successes(c) + 1 <= ret.p.max_

\* what LessThan does for n < 2: the one attempt made before the loop, and
\* success with one repetition if that attempt matched
C11_FirstAttemptUnbounded ==
  (Returned /\ ret.p.kind = "LessThan" /\ ret.p.max_ < 2) =>
    /\ Len(ret.calls) = 1
    /\ ret.result = ret.calls[1].result

\* the calls of the consumer of the node of ret during the call of ret
OwnCalls == {k \in DOMAIN LogOfRet : LogOfRet[k].path = ret.path}

\* C12: one call of parse(s) on a node with a bound consumer invokes that
\* consumer exactly once if the match succeeded, a success that consumed
\* nothing included, and not at all if it failed; a node without a consumer
\* invokes none.  The argument is the prefix of s of length |s| - |value|:
\* argument followed by the returned value is s.
C12_CallbackFiring ==
  Returned =>
    LET fires == ret.p.consumer_ # "none" /\ ret.result.success
    IN /\ Cardinality(OwnCalls) = IF fires THEN 1 ELSE 0
       /\ \A k \in OwnCalls :
            /\ IsPrefix(LogOfRet[k].arg, ret.sv)
            /\ Len(LogOfRet[k].arg) + Len(ret.result.value) = Len(ret.sv)
            /\ LogOfRet[k].arg \o ret.result.value = ret.sv

\* a consumer called with the empty prefix of a non-empty input: the match
\* succeeded without consuming
C12_Witness ==
  /\ Returned
  /\ ret.p.consumer_ # "none"
  /\ ret.result = Result(ret.sv, TRUE)
  /\ ret.sv # <<>>
  /\ \E k \in OwnCalls : LogOfRet[k].arg = <<>>

\* a consumer called with a proper, non-empty prefix of the input
C12_WitnessPrefix ==
  /\ Returned
  /\ ret.p.consumer_ # "none"
  /\ ret.result.success
  /\ Len(ret.result.value) \in 1 .. (Len(ret.sv) - 1)
  /\ Cardinality(OwnCalls) = 1

\* a bound consumer that stayed silent because the match failed
C12_WitnessSilent ==
  /\ Returned
  /\ ret.p.consumer_ # "none"
  /\ ~ret.result.success
  /\ ret.calls # <<>>
  /\ \E k \in DOMAIN ret.calls : ret.calls[k].result.success
  /\ OwnCalls = {}

\* Then(CharP<'a'> with consumer f, RangeP<'b','c'>) with a consumer g of
\* its own
SequenceWithConsumers ==
  Bound(Then(Bound(CharP(1), "log"), RangeP(2, 3)), "log")

\* C13: consumers are called in the order in which the nodes complete
\* their successful matches.  During one call of parse, every consumer call
\* comes from the node itself or from a node below it, and the node's own
\* call comes after all of those (innermost first); within a Then, every
\* call from the first child's subtree comes before every call from the
\* second child's.  Then(CharP<'a'> with f, second) with g on "ab" calls
\* f("a") and then g("ab").
C13_CallbackOrder ==
  /\ Returned =>
       /\ \A k \in DOMAIN LogOfRet : IsPrefix(ret.path, LogOfRet[k].path)
       /\ \A k \in OwnCalls : k = Len(LogOfRet)
       /\ ret.p.kind = "Then" =>
            \A j \in LogOfChild(1) : \A k \in LogOfChild(2) : j < k
  /\ (status = "done" /\ parser = SequenceWithConsumers /\ input = <<1, 2>>) =>
       log = <<[path |-> <<1>>, arg |-> <<1>>], [path |-> <<>>, arg |-> <<1, 2>>]>>

\* a Then whose two subtrees and whose own consumer were all called
C13_Witness ==
  /\ Returned
  /\ ret.p.kind = "Then"
  /\ LogOfChild(1) # {}
  /\ LogOfChild(2) # {}
  /\ OwnCalls = {Len(LogOfRet)}
  /\ Len(LogOfRet) >= 3

\* the run of the example: f("a"), then g("ab")
C13_WitnessExample ==
  /\ status = "done"
  /\ parser = SequenceWithConsumers
  /\ input = <<1, 2>>
  /\ Len(log) = 2

\* the node of the tree p that the frames with the given path evaluate
RECURSIVE NodeAt(_, _)
NodeAt(p, path) ==
  IF path = <<>> THEN p
  ELSE NodeAt(IF IsBinary(p)
              THEN IF Head(path) = 1 THEN p.parser1_ ELSE p.parser2_
              ELSE p.parser_,
              Tail(path))

\* the consumer calls made since the call of frame f
LogSince(f) == SubSeq(log, f.mark + 1, Len(log))

\* C14: a consumer that throws ends the whole parse.  The exception leaves
\* the top-level parse, after the consumer has run: its call is the last
\* one recorded, and it is the only call of a throwing consumer.  Where the
\* exception passes a Then in progress, the Then's own consumer has not
\* been called; if it comes from inside the first child, the second child
\* was never attempted and none of its consumers was called; if it comes
\* from inside the second child, the first child had matched and its
\* consumer had been called.
C14_FaultPropagates ==
  /\ \A k \in DOMAIN log :
       NodeAt(parser, log[k].path).consumer_ = "throw" =>
         status = "threw" /\ k = Len(log)
  /\ status = "threw" =>
       /\ stack = <<>>
       /\ unwound # <<>>
       /\ unwound[1].path = <<>>
       /\ LET f == unwound[Len(unwound)]
          IN /\ f.p.consumer_ = "throw"
             /\ log # <<>>
             /\ log[Len(log)] = [path |-> f.path, arg |-> Consumed(f.sv, f.result)]
       /\ \A j \in 1 .. (Len(unwound) - 1) :
            unwound[j].p.kind = "Then" =>
              LET t == unwound[j]
                  which == unwound[j + 1].path[Len(t.path) + 1]
                  during == LogSince(t)
              IN /\ \A k \in DOMAIN during : during[k].path # t.path
                 /\ which = 1 =>
                      /\ t.calls = <<>>
                      /\ \A k \in DOMAIN during :
                           ~IsPrefix(Append(t.path, 2), during[k].path)
                 /\ which = 2 =>
                      /\ Len(t.calls) = 1
                      /\ t.calls[1].which = 1
                      /\ t.calls[1].result.success
                      /\ t.p.parser1_.consumer_ # "none" =>
                           \E k \in DOMAIN during :
                             during[k] = [path |-> Append(t.path, 1),
                                          arg |-> Consumed(t.sv, t.calls[1].result)]

\* Then(A, B) on "ab" with consumers on A, B and the Then, A's throwing: B
\* would have matched, but only A's consumer was called
C14_Witness ==
  /\ status = "threw"
  /\ parser = Bound(Then(Bound(CharP(1), "throw"), Bound(RangeP(2, 3), "log")), "log")
  /\ input = <<1, 2>>
  /\ log = <<[path |-> <<1>>, arg |-> <<1>>]>>
  /\ unwound[1].calls = <<>>

\* Then(A, B) on "ab" with B's consumer throwing: A's consumer was called
\* before B's, the Then's was not
C14_WitnessSecond ==
  /\ status = "threw"
  /\ parser = Bound(Then(Bound(CharP(1), "log"), Bound(RangeP(2, 3), "throw")), "log")
  /\ input = <<1, 2>>
  /\ log = <<[path |-> <<1>>, arg |-> <<1>>], [path |-> <<2>>, arg |-> <<2>>]>>

\* an exception that passed two calls in progress: thrown inside a Then
\* that is the first child of another Then
C14_WitnessNested ==
  /\ status = "threw"
  /\ Len(unwound) = 3
  /\ unwound[1].p.kind = "Then"
  /\ unwound[2].p.kind = "Then"
  /\ unwound[2].path = <<1>>

\* C15: parse raises an exception only if a bound consumer was called and
\* threw, and a consumer is called only on a successful match of its node.
\* A parse during which no throwing consumer is called returns normally;
\* what the top-level call returns is a Result for the input it was given,
\* and a non-match is the value {input, false}.  In particular a primitive
\* with a throwing consumer returns {input, false} on an input it does not
\* match.
C15_OnlyCallbacksFault ==
  /\ status = "threw" =>
       LET f == unwound[Len(unwound)]
       IN /\ f.p.consumer_ = "throw"
          /\ f.result.success
          /\ log # <<>>
          /\ log[Len(log)].path = f.path
  /\ (\A k \in DOMAIN log : NodeAt(parser, log[k].path).consumer_ # "throw") =>
       status # "threw"
  /\ status = "done" =>
       /\ ret.path = <<>>
       /\ ret.sv = input
       /\ ~ret.result.success => ret.result = Result(input, FALSE)

\* CharP<'a'> with a throwing consumer on "b": the consumer is not called
\* and parse returns {"b", false}
C15_Witness ==
  /\ status = "done"
  /\ parser = Bound(CharP(1), "throw")
  /\ input = <<2>>
  /\ ret.result = Result(<<2>>, FALSE)
  /\ log = <<>>

\* RangeP<'b','c'> & throwing CharP<'a'> on "a": the sequence fails at its
\* first child and returns {"a", false}
C15_WitnessSequence ==
  /\ status = "done"
  /\ parser.kind = "Then"
  /\ parser.parser1_ = Bound(RangeP(2, 3), "none")
  /\ parser.parser2_ = Bound(CharP(1), "throw")
  /\ input = <<1>>
  /\ ret.result = Result(<<1>>, FALSE)
  /\ log = <<>>

\* C16: CharP<c>.parse(s) succeeds iff s is non-empty and s[0] = c;
\* RangeP<lo, hi> iff s is non-empty and lo <= s[0] <= hi, both ends
\* included; AnyP iff s is non-empty.  A success consumes exactly the first
\* character: the value is s without it.  A failure returns {s, false}.
C16_PrimitiveMatching ==
  (Returned /\ IsPrimitive(ret.p)) =>
    LET s == ret.sv
        p == ret.p
        matches ==
          /\ s # <<>>
          /\ CASE p.kind = "CharP" -> s[1] = p.C
               [] p.kind = "RangeP" -> p.lower <= s[1] /\ s[1] <= p.upper
               [] p.kind = "AnyP" -> TRUE
    IN /\ ret.result.success <=> matches
       /\ matches =>
            /\ ret.result.value = SubSeq(s, 2, Len(s))
            /\ Len(ret.result.value) + 1 = Len(s)
       /\ ~matches => ret.result = Result(s, FALSE)

\* RangeP<'b','c'> matched 'c', the upper end of its range, and left the
\* rest of the input
C16_Witness ==
  /\ Returned
  /\ ret.p = RangeP(2, 3)
  /\ ret.sv = <<3, 1>>
  /\ ret.result = Result(<<1>>, TRUE)

\* RangeP<'b','c'> on the lower end, below the range and above it
C16_WitnessLower ==
  Returned /\ ret.p = RangeP(2, 3) /\ ret.sv = <<2>> /\ ret.result = Result(<<>>, TRUE)

C16_WitnessBelow ==
  Returned /\ ret.p = RangeP(2, 3) /\ ret.sv = <<1>> /\ ret.result = Result(<<1>>, FALSE)

C16_WitnessAbove ==
  Returned /\ ret.p = RangeP(2, 3) /\ ret.sv = <<4>> /\ ret.result = Result(<<4>>, FALSE)

\* CharP and AnyP on the empty input, and a CharP on another character
C16_WitnessEmpty ==
  Returned /\ ret.p \in {CharP(1), AnyP} /\ ret.sv = <<>> /\ ret.result = Result(<<>>, FALSE)

C16_WitnessOther ==
  Returned /\ ret.p = CharP(1) /\ ret.sv = <<2, 1>> /\ ret.result = Result(<<2, 1>>, FALSE)

C17_WitnessNested ==
  /\ parser = GreaterThan(1, Then(CharP(1), RangeP(2, 3)))
  /\ measured = {4}

\* an Or whose second child is the shorter one
C17_WitnessOr ==
  /\ parser = Or(Then(CharP(1), RangeP(2, 3)), CharP(1))
  /\ measured = {1}

\* the test case has given every input to parse and checked every Result
TestCaseOver == status = "ready" /\ pending = <<>>

\* C18: min_length() is tight: for a node that succeeds on some input,
\* min_length() is the smallest number of characters a successful match of
\* it consumes.
C18_MinLengthTight ==
  (TestCaseOver /\ matched # {}) =>
    \A m \in measured : m \in matched /\ \A n \in matched : m <= n

\* LessThan(3, CharP<'a'>): min_length() is 0, and over all the inputs no
\* successful match consumed fewer than one character
C18_LessThanNeedsOne ==
  (TestCaseOver /\ parser = LessThan(3, CharP(1))) =>
    /\ measured = {0}
    /\ matched = {1, 2}

\* what does hold of every tree: min_length() is never more than what a
\* successful match consumed
C18_NeverAboveShortest ==
  \A m \in measured : \A n \in matched : m <= n

\* Then(Optional(CharP<'a'>), CharP<'a'>): min_length() is 1, and the only
\* successful matches consume two characters, Optional taking the first
C18_GreedySequence ==
  (TestCaseOver /\ parser = Then(Optional(CharP(1)), CharP(1))) =>
    /\ measured = {1}
    /\ matched = {2}

\* C19: during one Or(A, B).parse(s) it never happens that a consumer of a
\* node inside A and a consumer of a node inside B are both called.
C19_OneBranchOnly ==
  (Returned /\ ret.p.kind = "Or") =>
    ~(LogOfChild(1) # {} /\ LogOfChild(2) # {})

\* C19, amended: during one Or(A, B).parse(s) a consumer of a node inside B
\* is called only if A.parse(s) failed, and then A's own consumer was not
\* called; if A succeeded, B was not attempted and no consumer inside B was
\* called.  Consumers of nodes nested inside A that matched before A failed
\* may have been called as well.
C19_BranchCallbacks ==
  (Returned /\ ret.p.kind = "Or") =>
    LET c == ret.calls
    IN /\ c[1].which = 1
       /\ c[1].result.success => Len(c) = 1 /\ LogOfChild(2) = {}
       /\ LogOfChild(2) # {} =>
            /\ ~c[1].result.success
            /\ \A k \in LogOfChild(1) : LogOfRet[k].path # Append(ret.path, 1)

\* Or(Then(CharP<'a'>, RangeP<'b','c'>), CharP<'a'>), a consumer on every
\* node, on "aa": the consumer of the CharP inside the Then was called, the
\* Then failed, and the consumer of the second branch was called
C19_Witness ==
  /\ Returned
  /\ ret.p = BindAll(Or(Then(CharP(1), RangeP(2, 3)), CharP(1)))
  /\ ret.sv = <<1, 1>>
  /\ ~ret.calls[1].result.success
  /\ LogOfChild(1) # {}
  /\ LogOfChild(2) # {}
  /\ ret.result = Result(<<1>>, TRUE)

\* an Or whose first branch matched: its consumers were called and the
\* second branch, which has a consumer and would have matched, was not run
C19_WitnessFirst ==
  /\ Returned
  /\ ret.p = Bound(Or(Bound(CharP(1), "log"), Bound(CharP(1), "log")), "log")
  /\ ret.sv = <<1>>
  /\ LogOfChild(1) # {}
  /\ LogOfChild(2) = {}

\* C20: Then(Or(CharP<'c'>, GreaterThan(0, CharP<'t'>)), CharP<'e'>) with a
\* consumer on the whole parser, given "ttest str", returns {"st str", true}
\* and calls the consumer exactly once, with "tte"; no call is made before
\* the parse has matched.
C20_EndToEnd ==
  (parser = ExampleParser /\ input = ExampleInput) =>
    /\ status = "run" => log = <<>>
    /\ status = "done" =>
         /\ ret.p = ExampleParser
         /\ ret.sv = ExampleInput
         /\ ret.result = Result(<<19, 20, 0, 19, 20, 18>>, TRUE)
         /\ log = <<[path |-> <<>>, arg |-> <<20, 20, 5>>]>>
    /\ status \in {"run", "done"}

\* the example has run to its end: second alternative taken, two 't'
\* matched and a third attempt failed, then the 'e'
C20_Witness ==
  /\ status = "done"
  /\ parser = ExampleParser
  /\ input = ExampleInput
  /\ ret.result.success
  /\ Len(log) = 1
  /\ Len(ret.calls) = 2
  /\ ret.calls[1].result = Result(<<5, 19, 20, 0, 19, 20, 18>>, TRUE)

\* where in the composite the copies of the original are
CopiesIn(shape) ==
  CASE shape = "copy" -> {<<>>}
    [] shape = "twice" -> {<<1>>, <<2>>}
    [] shape = "second" -> {<<2>>}
    [] OTHER -> {<<1>>}

\* C21: a composite holds copies of the parsers it was built from, their
\* consumers included: each copy is the original as it was when the
\* composite was built, whatever consumer the original has been given
\* since.  When the composite parses, the consumer calls of a copy are
\* those of the consumer bound at construction: none if there was none,
\* an exception only if it was the throwing one; and the two copies in
\* p & p are separate nodes, each with its own call.
C21_CompositesOwnCopies ==
  held.shape # "none" =>
    /\ \A path \in CopiesIn(held.shape) : NodeAt(held.composite, path) = held.source
    /\ held.target = "composite" =>
         /\ parser = held.composite
         /\ \A k \in DOMAIN log :
              log[k].path \in CopiesIn(held.shape) => held.source.consumer_ # "none"
         /\ status = "threw" =>
              /\ held.source.consumer_ = "throw"
              /\ log[Len(log)].path \in CopiesIn(held.shape)
         /\ (status = "done" /\ held.source.consumer_ = "throw") =>
              \A k \in DOMAIN log : log[k].path \notin CopiesIn(held.shape)

\* a composite built while the original had the throwing consumer, which
\* was then replaced on the original: parsing with the composite throws
C21_Witness ==
  /\ held.shape = "first"
  /\ held.target = "composite"
  /\ held.source.consumer_ = "throw"
  /\ held.original.consumer_ = "log"
  /\ status = "threw"
  /\ log = <<[path |-> <<1>>, arg |-> <<1>>]>>

\* a composite built before the original was given any consumer: it calls
\* none for its copy although the original has one now
C21_WitnessUnbound ==
  /\ held.shape = "first"
  /\ held.target = "composite"
  /\ held.source.consumer_ = "none"
  /\ held.original.consumer_ = "throw"
  /\ status = "done"
  /\ input = <<1, 2>>
  /\ log = <<[path |-> <<2>>, arg |-> <<2>>]>>

\* p & p on "aa": the two copies were each called once
C21_WitnessTwice ==
  /\ held.shape = "twice"
  /\ held.target = "composite"
  /\ status = "done"
  /\ log = <<[path |-> <<1>>, arg |-> <<1>>], [path |-> <<2>>, arg |-> <<1>>]>>

\* the consumer the last consumer() call on the original bound
LastBound == IF held.binds = <<>> THEN "none" ELSE held.binds[Len(held.binds)]

\* the calls of the consumer of the top-level node
TopCalls == {k \in DOMAIN log : log[k].path = <<>>}

\* C22: a node has at most one consumer, the one bound last.  After any
\* sequence of consumer() calls on a node, a parse of that node calls only
\* the consumer bound last, exactly once if the match succeeded: with the
\* recording consumer last the parse returns after one recorded call and
\* no exception, with the throwing one last one call is recorded and the
\* exception leaves, with none bound (or an empty one last) nothing is
\* called.
C22_LastConsumerOnly ==
  held.target = "original" =>
    /\ parser.consumer_ = LastBound
    /\ status = "done" =>
         /\ Cardinality(TopCalls) =
              IF LastBound = "log" /\ ret.result.success THEN 1 ELSE 0
         /\ ret.result.success => LastBound # "throw"
    /\ status = "threw" =>
         /\ LastBound = "throw"
         /\ Cardinality(TopCalls) = 1

\* consumer(throwing), then consumer(recording), then a successful parse:
\* one recorded call and a normal return
C22_Witness ==
  /\ held.target = "original"
  /\ held.binds = <<"throw", "log">>
  /\ status = "done"
  /\ ret.result.success
  /\ log = <<[path |-> <<>>, arg |-> <<1>>]>>

\* consumer(recording), then consumer(throwing): one call, then the
\* exception
C22_WitnessThrow ==
  /\ held.target = "original"
  /\ held.binds = <<"log", "throw">>
  /\ status = "threw"
  /\ log = <<[path |-> <<>>, arg |-> <<1>>]>>

\* the calls, during the call of ret, of the consumer of ret's child
\* `which` itself
ChildCalls(which) ==
  {k \in DOMAIN LogOfRet : LogOfRet[k].path = Append(ret.path, which)}

\* C23: what a failed sequence has done is not undone.  In Then(A, B) where
\* A matched and B failed, the consumer bound to A has been called exactly
\* once, with what A consumed; the consumer of the Then itself has not been
\* called; and the Then returns {s, false} for its input s.
C23_FailedSequenceKeepsEffects ==
  (/\ Returned
   /\ ret.p.kind = "Then"
   /\ Len(ret.calls) = 2
   /\ ret.calls[1].result.success
   /\ ~ret.calls[2].result.success) =>
    /\ ret.result = Result(ret.sv, FALSE)
    /\ OwnCalls = {}
    /\ Cardinality(ChildCalls(1)) =
         IF ret.p.parser1_.consumer_ = "none" THEN 0 ELSE 1
    /\ \A k \in ChildCalls(1) :
         LogOfRet[k].arg = Consumed(ret.sv, ret.calls[1].result)

\* Then(CharP<'a'> with f, RangeP<'b','c'>) with g on "aa": f("a") was
\* called, g was not, and the result is {"aa", false}
C23_Witness ==
  /\ Returned
  /\ ret.p = SequenceWithConsumers
  /\ ret.sv = <<1, 1>>
  /\ ret.result = Result(<<1, 1>>, FALSE)
  /\ LogOfRet = <<[path |-> <<1>>, arg |-> <<1>>]>>

\* every attempt of a child that the call of ret made failed
AllAttemptsFailed ==
  /\ ret.calls # <<>>
  /\ \A k \in DOMAIN ret.calls : ~ret.calls[k].result.success

\* C24: Optional is the only combinator that turns an inner failure into a
\* success of its own: any other combinator (Or, Then, Many, Times,
\* GreaterThan, LessThan) all of whose attempts of its children failed, the
\* only attempt made in particular, reports failure.
C24_OnlyOptionalConverts ==
  (Returned /\ ~IsPrimitive(ret.p) /\ ret.p.kind # "Optional" /\ AllAttemptsFailed) =>
    ~ret.result.success

\* C24, amended: Optional and Many are the two combinators that turn an
\* inner failure into a success of their own; they succeed whatever their
\* attempts returned.  Or, Then, Times, GreaterThan and LessThan report
\* failure when every attempt of their children failed: a success of
\* theirs has at least one successful attempt behind it.
C24_OptionalAndManyConvert ==
  Returned =>
    /\ (ret.p.kind \in {"Or", "Then", "Times", "GreaterThan", "LessThan"}
        /\ AllAttemptsFailed) => ret.result = Result(ret.sv, FALSE)
    /\ ret.p.kind \in {"Optional", "Many"} => ret.result.success

\* a GreaterThan(0, A) whose only attempt failed, and which failed
C24_Witness ==
  /\ Returned
  /\ ret.p.kind = "GreaterThan"
  /\ ret.p.min_ = 0
  /\ Len(ret.calls) = 1
  /\ AllAttemptsFailed
  /\ ~ret.result.success

\* a Many whose only attempt failed, and which succeeded
C24_WitnessMany ==
  /\ Returned
  /\ ret.p.kind = "Many"
  /\ Len(ret.calls) = 1
  /\ AllAttemptsFailed
  /\ ret.result = Result(ret.sv, TRUE)

\* an Or both of whose children failed, and a LessThan whose only attempt
\* failed
C24_WitnessOr ==
  Returned /\ ret.p.kind = "Or" /\ Len(ret.calls) = 2 /\ AllAttemptsFailed

C24_WitnessLessThan ==
  Returned /\ ret.p.kind = "LessThan" /\ ret.p.max_ = 3 /\ AllAttemptsFailed

\* C25: Times(n, A).parse(s), for every n >= 0, attempts A exactly n times
\* when every attempt succeeds and never more than n times, each attempt on
\* the remainder of the one before; so the consumer bound to A is called at
\* most n times during one parse of the Times, never when n = 0.
C25_TimesAttemptCount ==
  (Returned /\ ret.p.kind = "Times") =>
    LET c == ret.calls
        n == ret.p.times_
    IN /\ Len(c) <= n
       /\ Successes(c) = Len(c) => Len(c) = n
       /\ c # <<>> => Chain(c, ret.sv)
       /\ Cardinality(ChildCalls(1)) <= n

\* C25 for n >= 1, where the code does what C25 says: at most n attempts,
\* n of them when all succeed, and one call of A's consumer per match
C25_AttemptCountPositive ==
  (Returned /\ ret.p.kind = "Times" /\ ret.p.times_ >= 1) =>
    LET c == ret.calls
        n == ret.p.times_
    IN /\ Len(c) \in 1 .. n
       /\ Successes(c) = Len(c) => Len(c) = n
       /\ Chain(c, ret.sv)
       /\ Cardinality(ChildCalls(1)) =
            IF ret.p.parser_.consumer_ = "log" THEN Successes(c) ELSE 0

\* Times(0, A) with a consumer on A, on an input A matches: A was attempted
\* once and its consumer was called once
C25_ZeroTimesCallsConsumer ==
  /\ Returned
  /\ ret.p.kind = "Times"
  /\ ret.p.times_ = 0
  /\ Len(ret.calls) = 1
  /\ ret.calls[1].result.success
  /\ Cardinality(ChildCalls(1)) = 1
  /\ ret.result = Result(ret.sv, FALSE)

\* the count parameter of a repetition combinator
CountOf(p) ==
  CASE p.kind = "Times" -> p.times_
    [] p.kind = "GreaterThan" -> p.min_
    [] p.kind = "LessThan" -> p.max_
    [] OTHER -> 0

\* the number of attempts a loop over input sv with count n may make, if it
\* stops once an attempt fails, the count is reached or nothing is left to
\* consume
AttemptBound(sv, n) == Len(sv) + n + 1

\* C26: every parse terminates, for every tree, GreaterThan, Times and
\* LessThan around inners that succeed without consuming included
\* (GreaterThan(n, Optional(X))), and the attempts one repetition combinator
\* makes are bounded in terms of |s| and its count: no loop in progress or
\* returned has made more than |s| + count + 1 attempts.
C26_AttemptsBounded ==
  /\ \A j \in DOMAIN stack :
       stack[j].p.kind \in {"Times", "GreaterThan", "LessThan"} =>
         Len(stack[j].calls) <= AttemptBound(stack[j].sv, CountOf(stack[j].p))
  /\ (Returned /\ ret.p.kind \in {"Times", "GreaterThan", "LessThan"}) =>
       Len(ret.calls) <= AttemptBound(ret.sv, CountOf(ret.p))

\* the loops with a counter stop, whatever the inner parser: Times makes at
\* most max(n, 1) attempts and LessThan at most max(n - 1, 1); and a
\* GreaterThan over an inner parser that consumes makes at most |s| + 1
C26_CountedLoopsStop ==
  \A j \in DOMAIN stack :
    LET f == stack[j]
    IN /\ f.p.kind = "Times" =>
            Len(f.calls) <= IF f.p.times_ = 0 THEN 1 ELSE f.p.times_
       /\ f.p.kind = "LessThan" =>
            Len(f.calls) <= IF f.p.max_ <= 2 THEN 1 ELSE f.p.max_ - 1
       /\ (f.p.kind = "GreaterThan" /\ Consuming(f.p.parser_)) =>
            Len(f.calls) <= Len(f.sv) + 1

\* the loop of GreaterThan(0, Optional(X)) on the empty input: it has made
\* MaxCalls attempts, each of which succeeded on "" and returned "", and the
\* call has not returned
C26_LoopGoesOn ==
  /\ status = "run"
  /\ Len(stack) = 1
  /\ top.p.kind = "GreaterThan" /\ top.p.min_ = 0
  /\ top.p.parser_.kind = "Optional"
  /\ top.sv = <<>>
  /\ Len(top.calls) = MaxCalls
  /\ \A k \in DOMAIN top.calls : top.calls[k].result = Result(<<>>, TRUE)

\* how many characters the Parser::parse call e of the earlier engine
\* consumed
ConsumedBy(e) == Len(e.sv) - Len(e.result)

\* C27: in the engine whose Parser::parse gates the consumer on
\* min_length(), the consumer is called only when the consumed length is
\* nonzero and at least min_length(): a node with min_length() = 0
\* (Optional, More) that consumed nothing does not call its consumer.
C27_GateNonzeroAndMinLength ==
  \A k \in DOMAIN events :
    LET e == events[k]
    IN e.args # <<>> =>
         ConsumedBy(e) > 0 /\ ConsumedBy(e) >= Parser_min_length(e.p)

\* C27, amended: the consumer of a node is called exactly when the consumed
\* length is at least min_length(), once, with the consumed prefix.  For a
\* node with min_length() >= 1 the consumed length is then nonzero; a node
\* with min_length() = 0 (Optional, More, and what is built of them) that
\* consumed nothing does call its consumer, with the empty string.
C27_GateMinLength ==
  \A k \in DOMAIN events :
    LET e == events[k]
    IN /\ e.args # <<>> <=>
            (e.p.consumer_ # "none" /\ ConsumedBy(e) >= Parser_min_length(e.p))
       /\ e.args # <<>> =>
            /\ Len(e.args) = 1
            /\ e.args[1] \o e.result = e.sv
       /\ (e.args # <<>> /\ Parser_min_length(e.p) >= 1) => ConsumedBy(e) > 0
       /\ (e.p.consumer_ # "none" /\ Parser_min_length(e.p) = 0) => e.args # <<>>

\* Optional(CharP 1) with a consumer, on an input that does not begin with
\* 1: nothing is consumed and the consumer is called with ""
C27_Witness ==
  \E k \in DOMAIN events :
    LET e == events[k]
    IN /\ e.p.kind = "Optional"
       /\ e.sv # <<>>
       /\ e.result = e.sv
       /\ e.args = << <<>> >>

\* a Then of two CharP that consumed one character of the two it needs:
\* its consumer is not called, that of its first child is
C27_WitnessPartial ==
  \E k \in DOMAIN events :
    LET e == events[k]
    IN /\ e.p.kind = "Then" /\ e.p.consumer_ = "log"
       /\ Parser_min_length(e.p) = 2
       /\ ConsumedBy(e) = 1
       /\ e.args = <<>>
       /\ events[k - 2].args = <<SubSeq(e.sv, 1, 1)>>

\* a More that consumed nothing and called its consumer with ""
C27_WitnessMore ==
  \E k \in DOMAIN events :
    events[k].p.kind = "More" /\ ConsumedBy(events[k]) = 0
    /\ events[k].args = << <<>> >>

\* C28: min_length() is a sound lower bound: a call of parse that succeeds,
\* on any node of any tree, has consumed at least min_length() characters
\* of that node.
C28_MinLengthSound ==
  (Returned /\ ret.result.success) =>
    Len(ret.sv) - Len(ret.result.value) >= min_length(ret.p)

\* a GreaterThan(1, A) that succeeded having consumed exactly its
\* min_length() of 2, and a Then over an Or that consumed its 2
C28_Witness ==
  /\ Returned
  /\ ret.p.kind = "GreaterThan" /\ ret.p.min_ = 1
  /\ min_length(ret.p) = 2
  /\ ret.result.success
  /\ Len(ret.sv) - Len(ret.result.value) = 2

C28_WitnessNested ==
  /\ Returned
  /\ ret.p.kind = "Then" /\ ret.p.parser1_.kind = "Or"
  /\ min_length(ret.p) = 2
  /\ ret.result.success
  /\ Len(ret.sv) - Len(ret.result.value) = 2

\* an Or that succeeded by its shorter branch, consuming nothing
C28_WitnessShorterBranch ==
  /\ Returned
  /\ ret.p.kind = "Or"
  /\ min_length(ret.p) = 0
  /\ min_length(ret.p.parser1_) + min_length(ret.p.parser2_) > 0
  /\ ret.result = Result(ret.sv, TRUE)

\* the calls of the consumer of ret's only child during the call of ret, in
\* the order they were made
InnerCalls == SelectSeq(LogOfRet, LAMBDA e : e.path = Append(ret.path, 1))

\* what the call c of a child consumed
Span(c) == SubSeq(c.sv, 1, Len(c.sv) - Len(c.result.value))

\* C29: in GreaterThan(n, A) and Times(n, A) with a consumer f bound to A, f
\* is called once per successful repetition of A, from left to right, with
\* the span of each, before the combinator decides about itself: also when
\* it returns {s, false} for too few repetitions, f has been called for
\* each of the k matches there were.
C29_RepetitionCallbacks ==
  (/\ Returned
   /\ ret.p.kind \in {"GreaterThan", "Times"}
   /\ ret.p.parser_.consumer_ = "log") =>
    LET c == ret.calls
        k == Successes(c)
    IN /\ Len(InnerCalls) = k
       /\ \A j \in 1 .. k :
            /\ c[j].result.success
            /\ InnerCalls[j].arg = Span(c[j])
       /\ \A own \in OwnCalls : \A j \in ChildCalls(1) : j < own
       /\ ~ret.result.success => ret.result.value = ret.sv

\* GreaterThan(2, CharP 1) on <<1, 1>>: {s, false}, after two calls of the
\* consumer of CharP 1, each with <<1>>
C29_Witness ==
  /\ Returned
  /\ ret.p.kind = "GreaterThan" /\ ret.p.min_ = 2
  /\ ret.sv = <<1, 1>>
  /\ ret.result = Result(ret.sv, FALSE)
  /\ Len(InnerCalls) = 2
  /\ \A j \in 1 .. 2 : InnerCalls[j].arg = <<1>>

\* Times(3, CharP 1) on <<1, 1, 2>>: {s, false}, after two calls
C29_WitnessTimes ==
  /\ Returned
  /\ ret.p.kind = "Times" /\ ret.p.times_ = 3
  /\ ret.sv = <<1, 1, 2>>
  /\ ret.result = Result(ret.sv, FALSE)
  /\ Len(InnerCalls) = 2

\* a GreaterThan that succeeded and whose own consumer was called after the
\* three of its child
C29_WitnessSuccess ==
  /\ Returned
  /\ ret.p.kind = "GreaterThan" /\ ret.p.consumer_ = "log"
  /\ ret.result.success
  /\ Len(InnerCalls) = 3
  /\ Cardinality(OwnCalls) = 1

\* the program has called parse on both parsers it holds, and both calls
\* have returned
BothReturned ==
  status = "done" /\ held.target = "composite" /\ Len(earlier) = 1

\* C30: the repetition combinators agree with their expansions: for an
\* inner parser A that consumes when it succeeds, every n >= 0 and every
\* input s, GreaterThan(n, A).parse(s) returns the Result that
\* Then(Times(n + 1, A), Many(A)).parse(s) returns; (+A).parse(s) that of
\* Then(A, Many(A)).parse(s); and Times(1, A).parse(s) that of A.parse(s).
C30_ExpansionsAgree ==
  BothReturned =>
    /\ ret.p = held.composite
    /\ ret.sv = input
    /\ ret.result = earlier[1]

\* GreaterThan(1, A) and its expansion have both returned {"", true} on an
\* input of three matches of A
C30_Witness ==
  /\ BothReturned
  /\ held.original.kind = "GreaterThan" /\ held.original.min_ = 1
  /\ held.composite = Expansion(1, held.original.parser_)
  /\ Len(input) = MaxLen
  /\ earlier[1] = Result(<<>>, TRUE)
  /\ ret.result = Result(<<>>, TRUE)

\* GreaterThan(2, A) and its expansion have both failed on two matches of A
\* followed by something else
C30_WitnessFailure ==
  /\ BothReturned
  /\ held.original.kind = "GreaterThan" /\ held.original.min_ = 2
  /\ held.original.parser_ = CharP(1)
  /\ input = <<1, 1, 2>>
  /\ earlier[1] = Result(input, FALSE)
  /\ ret.result = Result(input, FALSE)

\* +A and Then(A, Many(A)), and Times(1, A) and A, have returned a success
\* that left something of the input
C30_WitnessPlus ==
  /\ BothReturned
  /\ held.shape = "operator+"
  /\ ret.result.success /\ ret.result.value # <<>>
  /\ Len(ret.result.value) < Len(input) - 1

C30_WitnessTimes ==
  /\ BothReturned
  /\ held.shape = "Times"
  /\ held.composite.kind = "Then"
  /\ ret.result.success /\ ret.result.value # <<>>
====
